---- MODULE Spec2Model ----
(***************************************************************************)
(* Model of vox-file-generator (src/generate-vox-file.ts): the chunk tree, *)
(* the four content encoders, writeChunk and generateVoxFile, over a byte  *)
(* sink that holds values 0..255.                                          *)
(*                                                                         *)
(* Two specifications:                                                     *)
(*   Spec     one call of generateVoxFile(conf)                            *)
(*   SpecEnc  one direct call of a content encoder on an empty sink        *)
(***************************************************************************)
EXTENDS Integers, Sequences, FiniteSets, TLC

VARIABLES
  entry,        \* "generateVoxFile" or "encoder": which function was called
  conf,         \* the GenerateVoxFileConfiguration of the call
  strict,       \* TRUE: the sink's runtime range-checks integer writes; FALSE: it wraps them
  mainChunk,    \* the chunk tree built by mainChunkFactory
  cur,          \* the chunk writeChunk is working on
  stack,        \* chunks still to be written (pending iterations of the for-of loops)
  buf,          \* the bytes appended to the BufferBuilder so far
  pc,           \* position in the code
  err,          \* the error thrown, or NoError
  dirExists,    \* fs.existsSync(conf.dirctoryPath)
  mkdirCalled,  \* fs.mkdirSync was called
  fileWritten,  \* fs.writeFileSync was called and returned
  file          \* the bytes writeFileSync was given

vars == <<entry, conf, strict, mainChunk, cur, stack, buf, pc, err,
          dirExists, mkdirCalled, fileWritten, file>>

-----------------------------------------------------------------------------
(* Bounds of the model *)

MaxVoxels == 2

-----------------------------------------------------------------------------
(* Program constants *)

PaletteSize == 256
ColorIndexMax == 256
FormatVersion == 150

NoError == "none"
LengthMismatch == "LengthMismatch"
ColorIndexOutOfRange == "ColorIndexOutOfRange"
PaletteSizeMismatch == "PaletteSizeMismatch"
UnknownChunkId == "UnknownChunkId"
PersistenceFailure == "PersistenceFailure"
RangeError == "RangeError"

-----------------------------------------------------------------------------
(* The byte sink (BufferBuilder) *)

\* appendString(s, 'ascii') for the five strings the program writes
Ascii(s) ==
  CASE s = "VOX "  -> <<86, 79, 88, 32>>
    [] s = "MAIN"  -> <<77, 65, 73, 78>>
    [] s = "SIZE"  -> <<83, 73, 90, 69>>
    [] s = "XYZI"  -> <<88, 89, 90, 73>>
    [] s = "RGBA"  -> <<82, 71, 66, 65>>
    [] OTHER       -> <<63, 63, 63, 63>>

\* appendUInt32LE(v): four bytes, least significant first
UInt32LE(v) ==
  << v % 256, (v \div 256) % 256, (v \div 65536) % 256, (v \div 16777216) % 256 >>

\* The byte a one-byte cell holds after v is stored into it
UInt8(v) == v % 256

FitsUInt8(v) == v \in 0..255

\* A run of appendUInt8 calls on sink state s = [out, err], values vals, in order.
\* A value outside 0..255 either makes the runtime throw (range-checking
\* runtime), which ends the run there, or is stored modulo 256 (runtime that
\* skips the check).
AppendUInt8s(s, vals, isStrict) ==
  LET bad  == { i \in 1..Len(vals) : ~FitsUInt8(vals[i]) }
      stop == IF isStrict /\ bad # {}
              THEN CHOOSE i \in bad : \A j \in bad : i <= j
              ELSE Len(vals) + 1
  IN  IF s.err # NoError THEN s
      ELSE [out |-> s.out \o [i \in 1..(stop - 1) |-> UInt8(vals[i])],
            err |-> IF stop <= Len(vals) THEN RangeError ELSE NoError]

-----------------------------------------------------------------------------
(* Chunk model *)

numBytes(chunk) == chunk.numBytesOfChunkContent + chunk.numBytesOfChildrenChunks

sizeChunkFactory(content) ==
  [chunkId |-> "SIZE", numBytesOfChunkContent |-> 12, numBytesOfChildrenChunks |-> 0,
   content |-> content, children |-> <<>>]

xyziChunkFactory(content) ==
  [chunkId |-> "XYZI", numBytesOfChunkContent |-> Len(content.components) * 4,
   numBytesOfChildrenChunks |-> 0, content |-> content, children |-> <<>>]

rgbaChunkFactory(content) ==
  [chunkId |-> "RGBA", numBytesOfChunkContent |-> Len(content.components) * 4,
   numBytesOfChildrenChunks |-> 0, content |-> content, children |-> <<>>]

RECURSIVE SumNumBytes(_)
\* children.reduce((sum, chunk) => sum + numBytes(chunk), 0)
SumNumBytes(children) ==
  IF children = <<>> THEN 0
  ELSE numBytes(Head(children)) + SumNumBytes(Tail(children))

mainChunkFactory(children) ==
  [chunkId |-> "MAIN", numBytesOfChunkContent |-> 0,
   numBytesOfChildrenChunks |-> SumNumBytes(children),
   content |-> <<>>, children |-> children]

\* Mutant: the XYZI chunk is handed to mainChunkFactory before the SIZE chunk
BuildChildrenXyziFirst(c) ==
  << xyziChunkFactory([numVoxels |-> Len(c.voxels), components |-> c.voxels]),
     sizeChunkFactory(c.size),
     rgbaChunkFactory([components |-> c.colorTable]) >>

\* The argument of mainChunkFactory in generateVoxFile
BuildChildren(c) ==
  << sizeChunkFactory(c.size),
     xyziChunkFactory([numVoxels |-> Len(c.voxels), components |-> c.voxels]),
     rgbaChunkFactory([components |-> c.colorTable]) >>

NoChunk ==
  [chunkId |-> "NONE", numBytesOfChunkContent |-> 0, numBytesOfChildrenChunks |-> 0,
   content |-> <<>>, children |-> <<>>]

-----------------------------------------------------------------------------
(* Content encoders: each maps a content to [out, err], the bytes it appends *)
(* before it returns or throws, and the error it throws.                     *)

writeMainContent(input, isStrict) == [out |-> <<>>, err |-> NoError]

writeSizeContent(input, isStrict) ==
  [out |-> UInt32LE(input.x) \o UInt32LE(input.y) \o UInt32LE(input.z), err |-> NoError]

\* Mutant: the count check only rejects a count larger than the record list
XyziCountAtMost(input) == input.numVoxels <= Len(input.components)

XyziCountMatches(input) == input.numVoxels = Len(input.components)

ColorIndexInRange(component) ==
  ~(component.colorIndex <= 0 \/ component.colorIndex > ColorIndexMax)

RECURSIVE XyziLoop(_, _, _)
\* for (const component of input.components) { check; four appendUInt8 }
XyziLoop(s, components, isStrict) ==
  IF components = <<>> \/ s.err # NoError THEN s
  ELSE LET c == Head(components) IN
       IF ~ColorIndexInRange(c)
       THEN [out |-> s.out, err |-> ColorIndexOutOfRange]
       ELSE XyziLoop(AppendUInt8s(s, <<c.x, c.y, c.z, c.colorIndex>>, isStrict),
                     Tail(components), isStrict)

writeXyziContent(input, isStrict) ==
  IF ~XyziCountMatches(input)
  THEN [out |-> <<>>, err |-> LengthMismatch]
  ELSE XyziLoop([out |-> UInt32LE(input.numVoxels), err |-> NoError],
                input.components, isStrict)

\* Mutant: the palette check only rejects a palette that is too short
PaletteLengthAtLeast(input) == PaletteSize <= Len(input.components)

PaletteLengthOk(input) == PaletteSize = Len(input.components)

\* The values the for-of loop hands to appendUInt8, in the order of the calls:
\* r, g, b, a of the first component, then of the second, ...
RgbaValues(components) ==
  [k \in 1..(4 * Len(components)) |->
     LET c == components[((k - 1) \div 4) + 1] IN
     CASE (k - 1) % 4 = 0 -> c.r
       [] (k - 1) % 4 = 1 -> c.g
       [] (k - 1) % 4 = 2 -> c.b
       [] OTHER           -> c.a]

writeRgbaContent(input, isStrict) ==
  IF ~PaletteLengthOk(input)
  THEN [out |-> <<>>, err |-> PaletteSizeMismatch]
  ELSE AppendUInt8s([out |-> <<>>, err |-> NoError], RgbaValues(input.components), isStrict)

\* The switch of writeChunk
ContentEncoder(chunk, isStrict) ==
  CASE chunk.chunkId = "MAIN" -> writeMainContent(chunk.content, isStrict)
    [] chunk.chunkId = "SIZE" -> writeSizeContent(chunk.content, isStrict)
    [] chunk.chunkId = "XYZI" -> writeXyziContent(chunk.content, isStrict)
    [] chunk.chunkId = "RGBA" -> writeRgbaContent(chunk.content, isStrict)
    [] OTHER                  -> [out |-> <<>>, err |-> UnknownChunkId]

\* The three appends that open writeChunk
ChunkHeader(chunk) ==
  Ascii(chunk.chunkId) \o UInt32LE(chunk.numBytesOfChunkContent)
                       \o UInt32LE(chunk.numBytesOfChildrenChunks)

\* Mutant: the exception is swallowed and the persistence steps run
ThrowSwallowed == "exists"

\* Where control goes when an exception leaves generateVoxFile's encoding phase:
\* the async function's promise rejects and nothing after the throw runs.
ThrowTarget == "rejected"

-----------------------------------------------------------------------------
(* Inputs *)

grayScale == [i \in 1..256 |-> [r |-> i - 1, g |-> i - 1, b |-> i - 1, a |-> 255]]

Sizes == { [x |-> 16, y |-> 16, z |-> 16], [x |-> 256, y |-> 1, z |-> 0] }

Voxels ==
  { [x |-> 0,   y |-> 0, z |-> 0, colorIndex |-> 1],
    [x |-> 1,   y |-> 2, z |-> 3, colorIndex |-> 0],
    [x |-> 1,   y |-> 2, z |-> 3, colorIndex |-> 256],
    [x |-> 1,   y |-> 2, z |-> 3, colorIndex |-> 257],
    [x |-> 255, y |-> 0, z |-> 7, colorIndex |-> 255] }

VoxelLists == UNION { [1..n -> Voxels] : n \in 0..MaxVoxels }

Palettes ==
  { grayScale,
    [i \in 1..256 |-> [r |-> 256 - i, g |-> 7, b |-> i - 1, a |-> 128]],
    SubSeq(grayScale, 1, 255),
    Append(grayScale, [r |-> 1, g |-> 2, b |-> 3, a |-> 4]) }

Confs == [size : Sizes, voxels : VoxelLists, colorTable : Palettes]

NoConf == [size |-> [x |-> 0, y |-> 0, z |-> 0], voxels |-> <<>>, colorTable |-> <<>>]

-----------------------------------------------------------------------------
(* generateVoxFile *)

Init ==
  /\ entry = "generateVoxFile"
  /\ conf \in Confs
  /\ strict \in BOOLEAN
  /\ dirExists \in BOOLEAN
  /\ mainChunk = NoChunk
  /\ cur = NoChunk
  /\ stack = <<>>
  /\ buf = <<>>
  /\ pc = "start"
  /\ err = NoError
  /\ mkdirCalled = FALSE
  /\ fileWritten = FALSE
  /\ file = <<>>

\* lines 237-248: build the tree, allocate the builder
BuildTree ==
  /\ pc = "start"
  /\ mainChunk' = mainChunkFactory(BuildChildren(conf))
  /\ pc' = "magic"
  /\ UNCHANGED <<entry, conf, strict, cur, stack, buf, err,
                 dirExists, mkdirCalled, fileWritten, file>>

\* line 255
AppendMagic ==
  /\ pc = "magic"
  /\ buf' = buf \o Ascii("VOX ")
  /\ pc' = "version"
  /\ UNCHANGED <<entry, conf, strict, mainChunk, cur, stack, err,
                 dirExists, mkdirCalled, fileWritten, file>>

\* lines 256-257: the version, then the call writeChunk(builder, mainChunk)
AppendVersion ==
  /\ pc = "version"
  /\ buf' = buf \o UInt32LE(FormatVersion)
  /\ stack' = <<mainChunk>>
  /\ pc' = "chunk"
  /\ UNCHANGED <<entry, conf, strict, mainChunk, cur, err,
                 dirExists, mkdirCalled, fileWritten, file>>

\* lines 50-52: writeChunk is entered for the next pending chunk
WriteChunkHeader ==
  /\ pc = "chunk"
  /\ stack # <<>>
  /\ cur' = Head(stack)
  /\ stack' = Tail(stack)
  /\ buf' = buf \o ChunkHeader(Head(stack))
  /\ pc' = "content"
  /\ UNCHANGED <<entry, conf, strict, mainChunk, err,
                 dirExists, mkdirCalled, fileWritten, file>>

\* lines 53-68: the content encoder of the chunk's kind runs
WriteContent ==
  /\ pc = "content"
  /\ LET r == ContentEncoder(cur, strict) IN
       /\ buf' = buf \o r.out
       /\ err' = r.err
       /\ pc' = IF r.err = NoError
                THEN (IF entry = "encoder" THEN "returned" ELSE "children")
                ELSE ThrowTarget
  /\ UNCHANGED <<entry, conf, strict, mainChunk, cur, stack,
                 dirExists, mkdirCalled, fileWritten, file>>

\* lines 69-71: the children are written next, in sequence order, before
\* whatever was pending in the callers
WriteChildren ==
  /\ pc = "children"
  /\ stack' = cur.children \o stack
  /\ pc' = IF cur.children \o stack = <<>> THEN "exists" ELSE "chunk"
  /\ UNCHANGED <<entry, conf, strict, mainChunk, cur, buf, err,
                 dirExists, mkdirCalled, fileWritten, file>>

\* line 259: the directory is there already
DirectoryExists ==
  /\ pc = "exists"
  /\ dirExists
  /\ pc' = "write"
  /\ UNCHANGED <<entry, conf, strict, mainChunk, cur, stack, buf, err,
                 dirExists, mkdirCalled, fileWritten, file>>

\* lines 259-265: mkdirSync, which may throw
MakeDirectory ==
  /\ pc = "exists"
  /\ ~dirExists
  /\ mkdirCalled' = TRUE
  /\ \E ok \in BOOLEAN :
       IF ok THEN /\ dirExists' = TRUE
                  /\ pc' = "write"
                  /\ err' = err
             ELSE /\ dirExists' = FALSE
                  /\ pc' = "rejected"
                  /\ err' = PersistenceFailure
  /\ UNCHANGED <<entry, conf, strict, mainChunk, cur, stack, buf, fileWritten, file>>

\* lines 267-274: writeFileSync(resultFilePath, builder.get()), which may throw
WriteFile ==
  /\ pc = "write"
  /\ \E ok \in BOOLEAN :
       IF ok THEN /\ fileWritten' = TRUE
                  /\ file' = buf
                  /\ pc' = "done"
                  /\ err' = err
             ELSE /\ fileWritten' = FALSE
                  /\ file' = file
                  /\ pc' = "rejected"
                  /\ err' = PersistenceFailure
  /\ UNCHANGED <<entry, conf, strict, mainChunk, cur, stack, buf, dirExists, mkdirCalled>>

Next ==
  \/ BuildTree
  \/ AppendMagic
  \/ AppendVersion
  \/ WriteChunkHeader
  \/ WriteContent
  \/ WriteChildren
  \/ DirectoryExists
  \/ MakeDirectory
  \/ WriteFile

Spec == Init /\ [][Next]_vars

-----------------------------------------------------------------------------
(* A content encoder called directly on an empty sink *)

SizeContents == Sizes

XyziContents ==
  [numVoxels : 0..(MaxVoxels + 1), components : VoxelLists]

RgbaContents == [components : Palettes]

\* A chunk that carries the content; the xyzi chunk is built literally so that
\* numVoxels is independent of the record list
InitEnc ==
  /\ entry = "encoder"
  /\ conf = NoConf
  /\ strict \in BOOLEAN
  /\ dirExists = FALSE
  /\ mainChunk = NoChunk
  /\ \/ \E c \in SizeContents : cur = sizeChunkFactory(c)
     \/ \E c \in XyziContents : cur = xyziChunkFactory(c)
     \/ \E c \in RgbaContents : cur = rgbaChunkFactory(c)
  /\ stack = <<>>
  /\ buf = <<>>
  /\ pc = "content"
  /\ err = NoError
  /\ mkdirCalled = FALSE
  /\ fileWritten = FALSE
  /\ file = <<>>

NextEnc == WriteContent

SpecEnc == InitEnc /\ [][NextEnc]_vars

-----------------------------------------------------------------------------
(* Vocabulary of the properties *)

\* generateVoxFile got past writeChunk(builder, mainChunk) without a throw
EncodingSucceeded ==
  /\ entry = "generateVoxFile"
  /\ \/ pc \in {"exists", "write", "done"}
     \/ pc = "rejected" /\ err = PersistenceFailure

\* generateVoxFile was left by a throw of the encoding phase
EncodingFailed ==
  /\ entry = "generateVoxFile"
  /\ pc = "rejected"
  /\ err # PersistenceFailure

\* The directly called encoder has returned or thrown
EncoderFinished == entry = "encoder" /\ pc \in {"returned", "rejected"}

TreeBuilt == entry = "generateVoxFile" /\ pc # "start"

IsPrefix(a, b) == Len(a) <= Len(b) /\ a = SubSeq(b, 1, Len(a))

\* A configuration the specification calls valid
ValidConf(c) ==
  /\ Len(c.colorTable) = 256
  /\ \A i \in 1..Len(c.voxels) : c.voxels[i].colorIndex \in 1..256

\* Readers of the documented layout
FromUInt32LE(b) == b[1] + 256 * b[2] + 65536 * b[3] + 16777216 * b[4]

DecodeSize(b) ==
  [x |-> FromUInt32LE(SubSeq(b, 1, 4)),
   y |-> FromUInt32LE(SubSeq(b, 5, 8)),
   z |-> FromUInt32LE(SubSeq(b, 9, 12))]

DecodeXyzi(b) ==
  [numVoxels  |-> FromUInt32LE(SubSeq(b, 1, 4)),
   components |-> [i \in 1..((Len(b) - 4) \div 4) |->
                     [x |-> b[4 * i + 1], y |-> b[4 * i + 2],
                      z |-> b[4 * i + 3], colorIndex |-> b[4 * i + 4]]]]

DecodeRgba(b) ==
  [components |-> [i \in 1..(Len(b) \div 4) |->
                     [r |-> b[4 * i - 3], g |-> b[4 * i - 2],
                      b |-> b[4 * i - 1], a |-> b[4 * i]]]]

-----------------------------------------------------------------------------
(* C1 *)

\* C1: for every valid configuration the declared length fields of every chunk
\* of the tree are truthful: a leaf's numBytesOfChunkContent is the number of
\* bytes its content encoder appends, its numBytesOfChildrenChunks is 0, and
\* MAIN's numBytesOfChildrenChunks (so numBytes(mainChunk)) is the number of
\* bytes written for its children, headers included.
C1_LengthFieldsTruthful ==
  (TreeBuilt /\ ValidConf(conf)) =>
    /\ \A i \in 1..Len(mainChunk.children) :
         LET child == mainChunk.children[i] IN
           /\ LET r == ContentEncoder(child, strict) IN
                r.err = NoError => child.numBytesOfChunkContent = Len(r.out)
           /\ child.numBytesOfChildrenChunks = 0
    /\ mainChunk.numBytesOfChunkContent = 0
    /\ EncodingSucceeded =>
         /\ mainChunk.numBytesOfChildrenChunks = Len(buf) - 8 - 12
         /\ numBytes(mainChunk) = Len(buf) - 8 - 12

-----------------------------------------------------------------------------
(* C2 *)

\* C2: the XYZI chunk built for a voxel list of length N declares
\* contentByteLength = 4 + 4*N and childrenByteLength = 0; for the empty list
\* the declared and the written content are the 4 bytes 00 00 00 00.
C2_XyziDeclaredLength ==
  TreeBuilt =>
    LET xyzi == mainChunk.children[2]
        N    == Len(conf.voxels)
    IN  /\ xyzi.chunkId = "XYZI"
        /\ xyzi.numBytesOfChunkContent = 4 + 4 * N
        /\ xyzi.numBytesOfChildrenChunks = 0
        /\ N = 0 => /\ ContentEncoder(xyzi, strict).out = <<0, 0, 0, 0>>
                    /\ xyzi.numBytesOfChunkContent = 4

-----------------------------------------------------------------------------
(* C3 *)

ScenarioConf ==
  [size |-> [x |-> 16, y |-> 16, z |-> 16],
   voxels |-> << [x |-> 0, y |-> 0, z |-> 0, colorIndex |-> 1] >>,
   colorTable |-> grayScale]

\* C3: for size (16,16,16), voxels [(0,0,0,1)] and the gray-scale palette the
\* buffer is 'VOX ', 150 LE, a MAIN header with childrenByteLength 1068, a SIZE
\* chunk with content 10 00 00 00 x3, an XYZI chunk with content
\* 01 00 00 00 00 00 00 01, an RGBA chunk with 1024 content bytes starting
\* 00 00 00 FF 01 01 01 FF.
C3_ScenarioBytes ==
  (EncodingSucceeded /\ conf = ScenarioConf) =>
    /\ SubSeq(buf, 1, 4) = <<86, 79, 88, 32>>
    /\ SubSeq(buf, 5, 8) = <<150, 0, 0, 0>>
    /\ SubSeq(buf, 9, 12) = <<77, 65, 73, 78>>
    /\ FromUInt32LE(SubSeq(buf, 17, 20)) = 1068
    /\ SubSeq(buf, 21, 24) = <<83, 73, 90, 69>>
    /\ SubSeq(buf, 33, 44) = <<16, 0, 0, 0, 16, 0, 0, 0, 16, 0, 0, 0>>
    /\ SubSeq(buf, 45, 48) = <<88, 89, 90, 73>>
    /\ SubSeq(buf, 57, 64) = <<1, 0, 0, 0, 0, 0, 0, 1>>
    /\ SubSeq(buf, 65, 68) = <<82, 71, 66, 65>>
    /\ Len(buf) = 76 + 1024
    /\ SubSeq(buf, 77, 84) = <<0, 0, 0, 255, 1, 1, 1, 255>>

-----------------------------------------------------------------------------
(* C4 *)

\* The byte sequence the documented order prescribes for the call: magic,
\* version, MAIN header, then SIZE, XYZI, RGBA, each as id, content length,
\* children length, content; records in input order.
C4_Layout ==
  LET size == mainChunk.children[1]
      xyzi == mainChunk.children[2]
      rgba == mainChunk.children[3]
      Hdr(id, chunk) == id \o UInt32LE(chunk.numBytesOfChunkContent)
                           \o UInt32LE(chunk.numBytesOfChildrenChunks)
      records == [k \in 1..(4 * Len(conf.voxels)) |->
                    LET v == conf.voxels[((k - 1) \div 4) + 1] IN
                    (CASE k % 4 = 1 -> v.x [] k % 4 = 2 -> v.y
                       [] k % 4 = 3 -> v.z [] OTHER -> v.colorIndex) % 256]
      palette == [k \in 1..(4 * Len(conf.colorTable)) |->
                    LET c == conf.colorTable[((k - 1) \div 4) + 1] IN
                    CASE k % 4 = 1 -> c.r [] k % 4 = 2 -> c.g
                      [] k % 4 = 3 -> c.b [] OTHER -> c.a]
  IN  <<86, 79, 88, 32>> \o <<150, 0, 0, 0>>
        \o Hdr(<<77, 65, 73, 78>>, mainChunk)
        \o Hdr(<<83, 73, 90, 69>>, size)
        \o UInt32LE(conf.size.x) \o UInt32LE(conf.size.y) \o UInt32LE(conf.size.z)
        \o Hdr(<<88, 89, 90, 73>>, xyzi)
        \o UInt32LE(Len(conf.voxels)) \o records
        \o Hdr(<<82, 71, 66, 65>>, rgba)
        \o palette

\* C4: at every point of a run the bytes appended so far are an initial part
\* of magic, version, MAIN, SIZE, XYZI, RGBA (each: id, content length,
\* children length, content, children; records in input order), and a run
\* whose encoding succeeds has appended exactly that sequence and nothing else.
C4_AppendOrder ==
  TreeBuilt =>
    /\ IsPrefix(buf, C4_Layout)
    /\ EncodingSucceeded => buf = C4_Layout

C4_Witness ==
  /\ entry = "generateVoxFile"
  /\ pc = "done"
  /\ Len(conf.voxels) = 2
  /\ conf.voxels[1] # conf.voxels[2]
  /\ conf.colorTable # grayScale
  /\ fileWritten

-----------------------------------------------------------------------------
(* C5 *)

\* C5: writeXyziContent (count matching) throws ColorIndexOutOfRange exactly
\* when some record's colorIndex is outside [1, 256]; otherwise (so also for
\* colorIndex 1 and 256) it succeeds and the sink holds the count followed by
\* every record's x, y, z, colorIndex as four unsigned 8-bit values.
C5_ColorIndexRange ==
  (EncoderFinished /\ cur.chunkId = "XYZI" /\ XyziCountMatches(cur.content)) =>
    LET cs  == cur.content.components
        bad == \E i \in 1..Len(cs) : cs[i].colorIndex \notin 1..256
    IN  /\ (err = ColorIndexOutOfRange) <=> bad
        /\ ~bad =>
             /\ err = NoError
             /\ Len(buf) = 4 + 4 * Len(cs)
             /\ \A i \in 1..Len(cs) :
                  SubSeq(buf, 4 * i + 1, 4 * i + 4)
                    = <<cs[i].x, cs[i].y, cs[i].z, cs[i].colorIndex>>

-----------------------------------------------------------------------------
(* C6 *)

\* C6: writeRgbaContent throws PaletteSizeMismatch when the palette length is
\* not 256, having appended nothing; for length 256 it succeeds, the sink
\* holds exactly 1024 bytes, r, g, b, a of each record in sequence order, and
\* the RGBA chunk declares contentByteLength = 1024.
C6_PaletteSize ==
  (EncoderFinished /\ cur.chunkId = "RGBA") =>
    LET cs == cur.content.components IN
      /\ Len(cs) # 256 => /\ pc = "rejected"
                          /\ err = PaletteSizeMismatch
                          /\ buf = <<>>
      /\ Len(cs) = 256 => /\ pc = "returned"
                          /\ err = NoError
                          /\ Len(buf) = 1024
                          /\ cur.numBytesOfChunkContent = 1024
                          /\ \A i \in 1..256 :
                               /\ buf[4 * i - 3] = cs[i].r
                               /\ buf[4 * i - 2] = cs[i].g
                               /\ buf[4 * i - 1] = cs[i].b
                               /\ buf[4 * i]     = cs[i].a

C6_Witness ==
  /\ EncoderFinished
  /\ cur.chunkId = "RGBA"
  /\ Len(cur.content.components) = 256
  /\ cur.content.components # grayScale
  /\ Len(buf) = 1024

-----------------------------------------------------------------------------
(* C7 *)

\* C7: in a run whose encoding has raised ColorIndexOutOfRange or
\* PaletteSizeMismatch, mkdirSync has not been called and no file has been
\* written; and no step taken from such a state performs either.
C7_NoPersistenceAfterValidationError ==
  (entry = "generateVoxFile" /\ err \in {ColorIndexOutOfRange, PaletteSizeMismatch}) =>
    /\ ~mkdirCalled
    /\ ~fileWritten
    /\ file = <<>>
    /\ pc = "rejected"

C7_Witness ==
  /\ entry = "generateVoxFile"
  /\ err = ColorIndexOutOfRange
  /\ pc = "rejected"
  /\ Len(buf) > 60
  /\ ~dirExists

-----------------------------------------------------------------------------
(* C8 *)

\* C8: writeXyziContent throws LengthMismatch whenever numVoxels differs from
\* the number of records, and the sink is still empty when it does.
C8_LengthMismatchFirst ==
  (EncoderFinished /\ cur.chunkId = "XYZI"
     /\ cur.content.numVoxels # Len(cur.content.components)) =>
    /\ pc = "rejected"
    /\ err = LengthMismatch
    /\ buf = <<>>

C8_Witness ==
  /\ EncoderFinished
  /\ cur.chunkId = "XYZI"
  /\ cur.content.numVoxels = 1
  /\ Len(cur.content.components) = 2
  /\ err = LengthMismatch

-----------------------------------------------------------------------------
(* C9 *)

-----------------------------------------------------------------------------
(* C10 *)

\* C10: through generateVoxFile the encoding phase fails only with
\* ColorIndexOutOfRange or PaletteSizeMismatch; LengthMismatch and
\* UnknownChunkId never occur.
C10_OnlyTwoEncodingErrors ==
  /\ entry = "generateVoxFile" => err \notin {LengthMismatch, UnknownChunkId}
  /\ EncodingFailed => err \in {ColorIndexOutOfRange, PaletteSizeMismatch}

====
